---- MODULE Spec2Model ----
(***************************************************************************)
(* A model of the URL shortener's core: the Counter allocator, the         *)
(* Base62 encoder, the URL store, the Redis cache manager and the three    *)
(* service operations create_short_url, get_original_url and delete_url.   *)
(*                                                                         *)
(* Request handlers run concurrently, one session per request.  Every SQL  *)
(* statement and every cache command is one atomic step against the        *)
(* committed state (READ COMMITTED, the default of the PostgreSQL          *)
(* deployment); what a handler computes between two statements is part of  *)
(* the step of the statement that follows it.  The session expires its     *)
(* objects on commit (the SQLAlchemy default, not overridden by            *)
(* app/__init__.py), so an attribute read after db.session.commit() is a   *)
(* fresh SELECT of the row.                                                *)
(***************************************************************************)
EXTENDS Integers, Sequences, FiniteSets, TLC

(***************************************************************************)
(* Bounds of the model.                                                    *)
(***************************************************************************)
NProc == 2          \* concurrent request handlers
MaxCalls == 2       \* calls begun in a behaviour of Spec
MaxAllocs == 3      \* calls begun in a behaviour of SpecCounter
MaxRaceCalls == 3   \* calls begun in a behaviour of SpecRace
MaxPairCalls == 2   \* calls each deployment serves in a behaviour of SpecPair
MaxCollideCalls == 3 \* calls begun in a behaviour of SpecCollide
MaxOwnerCalls == 3   \* calls begun in a behaviour of SpecOwner
MaxFieldCalls == 3   \* calls begun in a behaviour of SpecFields
MaxHangCalls == 2    \* calls begun in a behaviour of SpecHang
MaxRowCalls == 3     \* calls begun in a behaviour of SpecRows
MaxTrackedCalls == 3 \* calls each deployment serves in a behaviour of SpecTracked
MaxTime == 4        \* ticks of the clock
MaxFaultCalls == 3  \* calls begun in a behaviour of SpecFault
MaxRejectCalls == 2 \* calls begun in a behaviour of SpecReject
MaxSeqCalls == 3    \* calls begun in a behaviour of SpecSeq
MaxSeqLinks == 2    \* generated codes resolved in a behaviour of SpecSeq
MaxSmall == 2       \* small numbers encoded in a behaviour of SpecCodec
MaxOffset == 48     \* counter values encoded in a behaviour of SpecCodec
MaxUserCalls == 3   \* calls begun in a behaviour of SpecUser
MaxCodeChars == 17  \* longest custom code validated in a behaviour of SpecValid

Procs == 1..NProc

(***************************************************************************)
(* Program constants.  The counter's seed 100000000000 does not fit the    *)
(* 32-bit integers of TLC, so it is held     as two base-62^4 limbs,      *)
(* SeedHi * 62^4 + SeedLo, and the counter row's value as its offset from  *)
(* the seed.                                                               *)
(***************************************************************************)
BASE == 62
LimbBase == BASE * BASE * BASE * BASE
SeedHi == 6767              \* 100000000000 \div 62^4
SeedLo == 8534288           \* 100000000000 %    62^4
PadWidth == 7

(***************************************************************************)
(* Time is counted in ticks.  The two durations of the program keep their  *)
(* order, not their size: the time-to-live of a cache entry (3600 s) is    *)
(* TtlTicks, a day of expires_in_days is DayTicks, and an entry written    *)
(* when a link is created is gone before the link can expire.              *)
(***************************************************************************)
TtlTicks == 2
DayTicks == 3

(***************************************************************************)
(* Base62Encoder.  A string over ALPHABET is the sequence of its           *)
(* characters' indexes in ALPHABET (0-9 -> 0..9, a-z -> 10..35,            *)
(* A-Z -> 36..61); '-' and '_' , which are no digits, are 62 and 63.       *)
(***************************************************************************)
RECURSIVE EncodeDigits(_, _)
\* the while loop of encode on the number hi * 62^4 + lo: the digit
\* num % 62 is appended, num //= 62, and the result is reversed
EncodeDigits(hi, lo) ==
    IF hi = 0 /\ lo = 0 THEN << >>
    ELSE Append(EncodeDigits(hi \div BASE,
                             (hi % BASE) * (LimbBase \div BASE) + lo \div BASE),
                lo % BASE)

RECURSIVE ZFillOnes(_, _)
\* a padding with '1'
ZFillOnes(s, width) == IF Len(s) >= width THEN s ELSE ZFillOnes(<<1>> \o s, width)

RECURSIVE ZFill(_, _)
ZFill(s, width) == IF Len(s) >= width THEN s ELSE ZFill(<<0>> \o s, width)

\* an encode that pads 0 as well
EncodePadsZero(hi, lo) == ZFill(EncodeDigits(hi, lo), PadWidth)

\* an encode that pads to one character more
EncodePadsWider(hi, lo) ==
    IF hi = 0 /\ lo = 0 THEN <<0>>
    ELSE ZFill(EncodeDigits(hi, lo), PadWidth + 1)

Encode(hi, lo) ==
    IF hi = 0 /\ lo = 0 THEN <<0>>
    ELSE ZFill(EncodeDigits(hi, lo), PadWidth)

\* encode of the counter value seed + k
EncodeCounter(k) ==
    Encode(SeedHi + (SeedLo + k) \div LimbBase, (SeedLo + k) % LimbBase)

(***************************************************************************)
(* The characters.  A Python string is the sequence of its characters'     *)
(* code points; ALPHABET gives the character at each index of              *)
(* string.digits + string.ascii_lowercase + string.ascii_uppercase.  The   *)
(* '0' that zfill pads with is ALPHABET[0].                                *)
(***************************************************************************)
NDigits == 10               \* len(string.digits)
NLetters == 26              \* len(string.ascii_lowercase), len(string.ascii_uppercase)
CodeZero == 48              \* ord('0')
CodeLowerA == 97            \* ord('a')
CodeUpperA == 65            \* ord('A')

ALPHABET ==
    [d \in 0..(BASE - 1) |->
        IF d < NDigits THEN CodeZero + d
        ELSE IF d < NDigits + NLetters THEN CodeLowerA + (d - NDigits)
        ELSE CodeUpperA + (d - NDigits - NLetters)]

\* the string of the characters at these indexes of ALPHABET
Text(indexes) == [i \in 1..Len(indexes) |-> ALPHABET[indexes[i]]]

\* the string encode(hi * 62^4 + lo) returns
EncodeText(hi, lo) == Text(Encode(hi, lo))

\* an index that takes unknown characters for '0'
AlphabetIndexLenient(char) ==
    LET hit == {d \in 0..(BASE - 1) : ALPHABET[d] = char}
    IN IF hit = {} THEN 0 ELSE CHOOSE d \in hit : \A e \in hit : d <= e

\* ALPHABET.index(char); NotFound stands for the ValueError it raises
NotFound == BASE
AlphabetIndex(char) ==
    LET hit == {d \in 0..(BASE - 1) : ALPHABET[d] = char}
    IN IF hit = {} THEN NotFound ELSE CHOOSE d \in hit : \A e \in hit : d <= e

\* num * BASE + d on the two limbs of num
MulAdd(num, d) ==
    << num[1] * BASE + (num[2] * BASE + d) \div LimbBase,
       (num[2] * BASE + d) % LimbBase >>

RECURSIVE DecodeFrom(_, _, _)
\* the for loop of decode from character i on, num so far
DecodeFrom(string, i, num) ==
    IF i > Len(string) THEN [error |-> FALSE, num |-> num]
    ELSE IF AlphabetIndex(string[i]) = NotFound
         THEN [error |-> TRUE, num |-> <<0, 0>>]
         ELSE DecodeFrom(string, i + 1, MulAdd(num, AlphabetIndex(string[i])))

Decode(string) == DecodeFrom(string, 1, <<0, 0>>)

RECURSIVE TextLess(_, _)
\* s < t of two Python strings: the first differing code point decides
TextLess(s, t) ==
    IF t = << >> THEN FALSE
    ELSE IF s = << >> THEN TRUE
    ELSE IF s[1] # t[1] THEN s[1] < t[1]
    ELSE TextLess(Tail(s), Tail(t))

\* m < n of two numbers held as limbs
NumLess(m, n) == m[1] < n[1] \/ (m[1] = n[1] /\ m[2] < n[2])

(***************************************************************************)
(* Values.  None, the empty string and 0 are all falsy in the code's       *)
(* tests (if api_key, if custom_code, if expires_in_days, if cached_url):  *)
(* "" is no API key, << >> no custom code, 0 no expires_in_days and no     *)
(* user.  A URL is what the validator sees of it: whether validators.url   *)
(* takes it, its scheme and its host.                                      *)
(***************************************************************************)
NoKey == ""
NoCode == << >>
NoUser == 0
\* userinfo and host are the pieces their text is made of, so that one
\* text can stand inside another: "mylocalhost.com" is "my", "localhost",
\* ".com".  The port, all digits, is left out.
Url(wellformed, scheme, userinfo, host) ==
    [wellformed |-> wellformed, scheme |-> scheme, userinfo |-> userinfo,
     host |-> host]
NoUrl == Url(FALSE, "", << >>, << >>)
GoodUrl == Url(TRUE, "https", << >>, <<"example.com">>)
OtherUrl == Url(TRUE, "http", << >>, <<"example.org">>)
FtpUrl == Url(TRUE, "ftp", << >>, <<"example.com">>)
LocalUrl == Url(TRUE, "http", << >>, <<"localhost">>)

CodeAbc == <<10, 11, 12>>           \* "abc"
CodeAb == <<10, 11>>                \* "ab", too short
CodeFirst == EncodeCounter(1)       \* the 7 characters of the first auto code

(***************************************************************************)
(* URLValidator                                                            *)
(***************************************************************************)
ALLOWED_SCHEMES == {"http", "https"}
BLOCKED_DOMAINS == {"localhost", "127.0.0.1", "0.0.0.0"}

\* str.lower() on a piece of a host
Lower(piece) == IF piece = "LOCALHOST" THEN "localhost" ELSE piece

\* urlparse(url).netloc: the user information, if any, and the host
netloc(url) == url.userinfo \o url.host

\* blocked in domain
Contains(domain, blocked) == \E i \in 1..Len(domain) : domain[i] = blocked

is_valid_url(url) ==
    /\ url.wellformed
    /\ url.scheme \in ALLOWED_SCHEMES
    /\ LET domain == [i \in 1..Len(netloc(url)) |-> Lower(netloc(url)[i])]
       IN ~\E blocked \in BLOCKED_DOMAINS : Contains(domain, blocked)

MinCodeLen == 3
MaxCodeLen == 16
AllowedChars == 0..63

\* '-' and '_', and a character that is neither of them nor in ALPHABET
Hyphen == BASE
Underscore == BASE + 1
Foreign == BASE + 1 + 1

\* a validator whose upper limit is exclusive
is_valid_custom_code_strict(code) ==
    /\ code # << >>
    /\ Len(code) >= MinCodeLen
    /\ Len(code) < MaxCodeLen
    /\ \A i \in 1..Len(code) : code[i] \in AllowedChars

is_valid_custom_code(code) ==
    /\ code # << >>
    /\ Len(code) >= MinCodeLen
    /\ Len(code) <= MaxCodeLen
    /\ \A i \in 1..Len(code) : code[i] \in AllowedChars

(***************************************************************************)
(* State.  The store and the cache are indexed by deployment (Worlds): the *)
(* handlers of one deployment share its tables and its cache.  A second    *)
(* deployment exists only to run the same calls without a cache.           *)
(***************************************************************************)
Cached == "cached"          \* the deployment with a Redis client
Uncached == "uncached"      \* the deployment whose app.redis is None
Worlds == {Cached, Uncached}

VARIABLES
    counter,    \* [Worlds -> Nat]: counters row 'url_counter', value - seed
    urls,       \* [Worlds -> Seq(row)]: table urls, id = index
    analytics,  \* [Worlds -> Seq(url_id)]: table analytics
    cache,      \* [Worlds -> set of <<short_code, url, deadline>>]: Redis keys
    users,      \* Seq([api_key, is_active]): table users, id = index
    now,        \* datetime.utcnow()
    world,      \* [Procs -> Worlds]: the deployment a handler serves
    pc,         \* [Procs -> label]: where each handler stands
    call,       \* [Procs -> arguments of the call being served]
    loc,        \* [Procs -> local variables of the call being served]
    left,       \* how many more calls may begin (the bound of the behaviour)
    pre,        \* [Procs -> what held when the call began]   (history)
    log         \* the calls that have returned, in order     (history)

vars == <<counter, urls, analytics, cache, users, now, world, pc, call, loc,
          left, pre, log>>

NoCall == [op |-> "none", url |-> NoUrl, api_key |-> NoKey, code |-> NoCode,
           expires_in_days |-> 0, track |-> FALSE, request_data |-> FALSE,
           num |-> <<0, 0>>, string |-> << >>,
           email |-> [null |-> TRUE, text |-> ""]]
NoLoc == [user |-> NoUser, short_code |-> NoCode, is_custom |-> FALSE,
          rec |-> 0, clicks |-> 0, val |-> 0, url |-> NoUrl, created |-> FALSE]
NoPre == [since |-> 0, fresh |-> FALSE, active |-> FALSE, expired |-> FALSE]
NoRet == [status |-> 0, original_url |-> NoUrl, short_code |-> NoCode,
          click_count |-> 0, value |-> 0,
          num |-> <<0, 0>>, string |-> << >>, error |-> FALSE, valid |-> FALSE]

AllocCall == [NoCall EXCEPT !.op = "next_id"]
CreateCall(url, key, code, days) ==
    [NoCall EXCEPT !.op = "create", !.url = url, !.api_key = key, !.code = code,
                   !.expires_in_days = days]
GetCall(code, track, rd) ==
    [NoCall EXCEPT !.op = "get", !.code = code, !.track = track, !.request_data = rd]
DeleteCall(code, key) ==
    [NoCall EXCEPT !.op = "delete", !.code = code, !.api_key = key]
UserCall(email) == [NoCall EXCEPT !.op = "create_user", !.email = email]
ValidUrlCall(url) == [NoCall EXCEPT !.op = "is_valid_url", !.url = url]
ValidCodeCall(code) == [NoCall EXCEPT !.op = "is_valid_custom_code", !.code = code]
EncodeCall(num) == [NoCall EXCEPT !.op = "encode", !.num = num]
DecodeCall(string) == [NoCall EXCEPT !.op = "decode", !.string = string]

\* an email: None, or a text, which may be the empty one
Email(text) == [null |-> FALSE, text |-> text]
NoEmail == [null |-> TRUE, text |-> ""]
AdminEmail == Email("admin@urlshortener.com")

InitUsers == << [api_key |-> "k1", email |-> AdminEmail, is_active |-> TRUE],
                [api_key |-> "k2", email |-> NoEmail, is_active |-> TRUE],
                [api_key |-> "k3", email |-> NoEmail, is_active |-> FALSE] >>

\* the value of counter when the table counters has no row 'url_counter'
NoRow == 0 - 1

\* the tables created, the users registered, nothing cached, and the
\* counter row as given
InitFrom(budget, deployment, row) ==
    /\ left = budget
    /\ world = deployment
    /\ counter = [w \in Worlds |-> row]
    /\ urls = [w \in Worlds |-> << >>]
    /\ analytics = [w \in Worlds |-> << >>]
    /\ cache = [w \in Worlds |-> {}]
    /\ users = InitUsers
    /\ now = 0
    /\ pc = [p \in Procs |-> "idle"]
    /\ call = [p \in Procs |-> NoCall]
    /\ loc = [p \in Procs |-> NoLoc]
    /\ pre = [p \in Procs |-> NoPre]
    /\ log = << >>

\* the state init_db.py leaves: the counter row at its seed
InitWith(budget, deployment) == InitFrom(budget, deployment, 0)

Init == InitWith(MaxCalls, [p \in Procs |-> Cached])

(***************************************************************************)
(* Queries                                                                 *)
(***************************************************************************)
\* User.query.filter_by(api_key=key, is_active=True).first()
ActiveUser(key) ==
    LET hit == {i \in 1..Len(users) : users[i].api_key = key /\ users[i].is_active}
    IN IF hit = {} THEN NoUser ELSE CHOOSE i \in hit : \A j \in hit : i <= j

\* URL.query.filter_by(short_code=code, is_active=True).first()
ActiveUrl(w, code) ==
    LET hit == {i \in 1..Len(urls[w]) :
                    urls[w][i].short_code = code /\ urls[w][i].is_active}
    IN IF hit = {} THEN 0 ELSE CHOOSE i \in hit : \A j \in hit : i <= j

\* a lookup for the deletion that does not look at the owner
OwnedUrlAnyUser(w, code, uid) == ActiveUrl(w, code)

\* URL.query.filter_by(short_code=code, user_id=uid, is_active=True).first()
OwnedUrl(w, code, uid) ==
    LET hit == {i \in 1..Len(urls[w]) :
                    /\ urls[w][i].short_code = code
                    /\ urls[w][i].user_id = uid
                    /\ urls[w][i].is_active}
    IN IF hit = {} THEN 0 ELSE CHOOSE i \in hit : \A j \in hit : i <= j

\* URL.is_expired
is_expired(row) ==
    IF row.expires_at # << >> THEN now > row.expires_at[1] ELSE FALSE

\* short_code = db.Column(db.String(16), unique=True, ...): the constraint an
\* INSERT into urls is checked against
UniqueShortCode(w, code) ==
    \A i \in 1..Len(urls[w]) : urls[w][i].short_code # code

(***************************************************************************)
(* CacheManager.  ok is whether the Redis command went through: with no    *)
(* client configured, or when the command raises, get_url answers None     *)
(* and set_url and delete_url do nothing.  setex stores the key url:<code> *)
(* with the tick at which its time-to-live runs out.                       *)
(***************************************************************************)
CacheOutcomes(w) == IF w = Uncached THEN {FALSE} ELSE BOOLEAN

\* a get_url that lets a failed command answer from what Redis holds
cache_get_url_unguarded(w, code, ok) ==
    IF \E e \in cache[w] : e[1] = code
    THEN (CHOOSE e \in cache[w] : e[1] = code)[2]
    ELSE NoUrl

cache_get_url(w, code, ok) ==
    IF ok /\ \E e \in cache[w] : e[1] = code
    THEN (CHOOSE e \in cache[w] : e[1] = code)[2]
    ELSE NoUrl

cache_set_url(w, code, url, ok) ==
    IF ok THEN {e \in cache[w] : e[1] # code} \cup {<<code, url, now + TtlTicks>>}
    ELSE cache[w]

cache_delete_url(w, code, ok) ==
    IF ok THEN {e \in cache[w] : e[1] # code} ELSE cache[w]

(***************************************************************************)
(* A handler takes a call and, at the end, returns: the call and its       *)
(* result go to the log.                                                   *)
(***************************************************************************)
Snapshot(w, c) ==
    [since |-> Len(log),
     fresh |-> UniqueShortCode(w, c.code),
     active |-> ActiveUrl(w, c.code) # 0,
     expired |-> /\ ActiveUrl(w, c.code) # 0
                 /\ is_expired(urls[w][ActiveUrl(w, c.code)])]

Take(p, c, label) ==
    /\ pc[p] = "idle"
    /\ left > 0
    /\ left' = left - 1
    /\ call' = [call EXCEPT ![p] = c]
    /\ pre' = [pre EXCEPT ![p] = Snapshot(world[p], c)]
    /\ pc' = [pc EXCEPT ![p] = label]

Goto(p, label) == pc' = [pc EXCEPT ![p] = label] /\ UNCHANGED left

Entry(w, c, snap, r) == [world |-> w, call |-> c, pre |-> snap, ret |-> r]

\* the call p serves returns r
Return(p, r) ==
    /\ log' = Append(log, Entry(world[p], call[p], pre[p], r))
    /\ UNCHANGED left
    /\ pc' = [pc EXCEPT ![p] = "idle"]
    /\ call' = [call EXCEPT ![p] = NoCall]
    /\ loc' = [loc EXCEPT ![p] = NoLoc]
    /\ pre' = [pre EXCEPT ![p] = NoPre]

\* a call that returns in the step that takes it
Answer(p, c, r) ==
    /\ pc[p] = "idle"
    /\ left > 0
    /\ left' = left - 1
    /\ log' = Append(log, Entry(world[p], c, Snapshot(world[p], c), r))
    /\ UNCHANGED <<pc, call, loc, pre>>

Status(s) == [NoRet EXCEPT !.status = s]

(***************************************************************************)
(* Counter.get_next_id                                                     *)
(***************************************************************************)
\* a direct call of Counter.get_next_id
AllocBegin(p) ==
    /\ Take(p, AllocCall, "n_read")
    /\ UNCHANGED <<counter, urls, analytics, cache, users, now, world, loc, log>>

\* counter = cls.query.filter_by(name='url_counter').first(); without a
\* row, cls(name='url_counter', value=100000000000) is added to the session
CounterRead(p) ==
    /\ pc[p] = "n_read"
    /\ loc' = [loc EXCEPT ![p].val = IF counter[world[p]] = NoRow THEN 0
                                     ELSE counter[world[p]],
                          ![p].created = counter[world[p]] = NoRow]
    /\ Goto(p, "n_commit")
    /\ UNCHANGED <<counter, urls, analytics, cache, users, now, world, call, pre, log>>

\* counter.value += 1 on the value read; db.session.commit() writes it
CounterWrite(read) == read + 1

\* name = db.Column(db.String(50), unique=True, ...): the INSERT of a
\* second row 'url_counter' is refused
InsertsCounter(w) == counter[w] = NoRow

\* the UPDATE of the row, or the INSERT of the row added at line 102; a
\* refused INSERT raises out of get_next_id, which create_short_url calls
\* outside its try
CounterCommit(p) ==
    /\ pc[p] = "n_commit"
    /\ IF loc[p].created /\ ~InsertsCounter(world[p])
       THEN /\ Return(p, Status(500))
            /\ UNCHANGED counter
       ELSE /\ counter' = [counter EXCEPT ![world[p]] = CounterWrite(loc[p].val)]
            /\ Goto(p, "n_return")
            /\ UNCHANGED <<call, loc, pre, log>>
    /\ UNCHANGED <<urls, analytics, cache, users, now, world>>

\* return counter.value: the commit expired the object, the value is read
\* again.  In create_short_url the value becomes the short code.
CounterReturn(p) ==
    /\ pc[p] = "n_return"
    /\ IF call[p].op = "next_id"
       THEN Return(p, [NoRet EXCEPT !.value = counter[world[p]]])
       ELSE /\ loc' = [loc EXCEPT ![p].val = counter[world[p]],
                                  ![p].short_code = EncodeCounter(counter[world[p]]),
                                  ![p].is_custom = FALSE]
            /\ Goto(p, "c_insert")
            /\ UNCHANGED <<call, pre, log>>
    /\ UNCHANGED <<counter, urls, analytics, cache, users, now, world>>

CounterSteps(p) == CounterRead(p) \/ CounterCommit(p) \/ CounterReturn(p)

NextCounter == \E p \in Procs : AllocBegin(p) \/ CounterSteps(p)

InitCounter == InitWith(MaxAllocs, [p \in Procs |-> Cached])

SpecCounter == InitCounter /\ [][NextCounter]_vars

\* a database whose tables were created without the counter row
InitLazy == InitFrom(MaxAllocs, [p \in Procs |-> Cached], NoRow)

SpecLazy == InitLazy /\ [][NextCounter]_vars

(***************************************************************************)
(* URLShortenerService.create_short_url                                    *)
(***************************************************************************)
\* a create_short_url that draws its id from the counter before it
\* validates anything
CreateBeginAllocFirst(p, c) ==
    /\ c.op = "create"
    /\ counter' = [counter EXCEPT ![world[p]] = CounterWrite(@)]
    /\ LET user == IF c.api_key # NoKey THEN ActiveUser(c.api_key) ELSE NoUser
       IN IF ~is_valid_url(c.url)
          THEN Answer(p, c, Status(400))
          ELSE IF c.api_key # NoKey /\ user = NoUser
          THEN Answer(p, c, Status(401))
          ELSE IF c.code # NoCode /\ ~is_valid_custom_code(c.code)
          THEN Answer(p, c, Status(400))
          ELSE /\ Take(p, c, IF c.code # NoCode THEN "c_exists" ELSE "n_read")
               /\ loc' = [loc EXCEPT ![p].user = user]
               /\ UNCHANGED log
    /\ UNCHANGED <<urls, analytics, cache, users, now, world>>

\* lines 16-32 and 41: validate the URL, look the user up, validate the
\* custom code
CreateBegin(p, c) ==
    /\ c.op = "create"
    /\ LET user == IF c.api_key # NoKey THEN ActiveUser(c.api_key) ELSE NoUser
       IN IF ~is_valid_url(c.url)
          THEN Answer(p, c, Status(400))
          ELSE IF c.api_key # NoKey /\ user = NoUser
          THEN Answer(p, c, Status(401))
          ELSE IF c.code # NoCode /\ ~is_valid_custom_code(c.code)
          THEN Answer(p, c, Status(400))
          ELSE /\ Take(p, c, IF c.code # NoCode THEN "c_exists" ELSE "n_read")
               /\ loc' = [loc EXCEPT ![p].user = user]
               /\ UNCHANGED log
    /\ UNCHANGED <<counter, urls, analytics, cache, users, now, world>>

\* lines 35-40: existing = URL.query.filter_by(short_code=custom_code,
\* is_active=True).first()
CreateExists(p) ==
    /\ pc[p] = "c_exists"
    /\ IF ActiveUrl(world[p], call[p].code) # 0
       THEN Return(p, Status(409))
       ELSE /\ loc' = [loc EXCEPT ![p].short_code = call[p].code,
                                  ![p].is_custom = TRUE]
            /\ Goto(p, "c_insert")
            /\ UNCHANGED <<call, pre, log>>
    /\ UNCHANGED <<counter, urls, analytics, cache, users, now, world>>

\* lines 48-59: the row to insert
NewUrl(p, id) ==
    [id |-> id,
     original_url |-> call[p].url,
     short_code |-> loc[p].short_code,
     user_id |-> loc[p].user,
     expires_at |-> IF call[p].expires_in_days # 0
                    THEN <<now + call[p].expires_in_days * DayTicks>> ELSE << >>,
     is_active |-> TRUE,
     click_count |-> 0,
     is_custom |-> loc[p].is_custom]

\* an urls table without the unique constraint on short_code
InsertCommitsUnchecked(w, code) == TRUE

\* whether the INSERT of a row with this short code commits
InsertCommits(w, code) == UniqueShortCode(w, code)

\* a create that caches the mapping before the commit
CacheBeforeCommit(w, code, url) == cache_set_url(w, code, url, TRUE)

\* lines 76-78: the commit raised before line 67 was reached, the cache
\* is as it was
CacheOnRollback(w, code, url) == cache[w]

\* lines 61-63 and 76-78: db.session.add(url_record); db.session.commit(),
\* and on an exception rollback and 500
CreateInsert(p) ==
    /\ pc[p] = "c_insert"
    /\ IF InsertCommits(world[p], loc[p].short_code)
       THEN /\ urls' = [urls EXCEPT ![world[p]] =
                            Append(@, NewUrl(p, Len(urls[world[p]]) + 1))]
            /\ Goto(p, "c_cache")
            /\ UNCHANGED <<cache, call, loc, pre, log>>
       ELSE /\ cache' = [cache EXCEPT ![world[p]] =
                            CacheOnRollback(world[p], loc[p].short_code, call[p].url)]
            /\ Return(p, Status(500))
            /\ UNCHANGED urls
    /\ UNCHANGED <<counter, analytics, users, now, world>>

\* lines 66-74: self.cache.set_url(short_code, original_url); return 201
CreateCache(p) ==
    /\ pc[p] = "c_cache"
    /\ \E ok \in CacheOutcomes(world[p]) :
        cache' = [cache EXCEPT ![world[p]] =
                     cache_set_url(world[p], loc[p].short_code, call[p].url, ok)]
    /\ Return(p, [NoRet EXCEPT !.status = 201,
                               !.short_code = loc[p].short_code,
                               !.original_url = call[p].url])
    /\ UNCHANGED <<counter, urls, analytics, users, now, world>>

(***************************************************************************)
(* URLShortenerService.get_original_url                                    *)
(***************************************************************************)
\* a resolution that answers from the cache whenever it holds the code
UsesCacheAlways(cached_url, track_analytics) == cached_url # NoUrl

\* line 85: if cached_url and not track_analytics
UsesCache(cached_url, track_analytics) == cached_url # NoUrl /\ ~track_analytics

\* lines 84-86: the cache is tried first
GetBegin(p, c) ==
    /\ c.op = "get"
    /\ \E ok \in CacheOutcomes(world[p]) :
        LET cached_url == cache_get_url(world[p], c.code, ok)
        IN IF UsesCache(cached_url, c.track)
           THEN Answer(p, c, [NoRet EXCEPT !.status = 200,
                                           !.original_url = cached_url])
           ELSE /\ Take(p, c, "g_query")
                /\ UNCHANGED <<loc, log>>
    /\ UNCHANGED <<counter, urls, analytics, cache, users, now, world>>

\* a resolution that deactivates the expired row it finds
DeactivateExpired(rows, id) == [rows EXCEPT ![id].is_active = FALSE]

\* lines 95-96: an expired row is answered with 410 and left as it is
OnExpired(rows, id) == rows

\* lines 89-100: the active row is queried; 404 without one, 410 when it
\* has expired
GetQuery(p) ==
    /\ pc[p] = "g_query"
    /\ LET w == world[p]
           id == ActiveUrl(w, call[p].code)
       IN IF id = 0
          THEN Return(p, Status(404)) /\ UNCHANGED urls
          ELSE IF is_expired(urls[w][id])
          THEN /\ urls' = [urls EXCEPT ![w] = OnExpired(@, id)]
               /\ Return(p, Status(410))
          ELSE /\ loc' = [loc EXCEPT ![p].rec = id,
                                     ![p].clicks = urls[w][id].click_count]
               /\ Goto(p, IF call[p].track /\ call[p].request_data
                          THEN "g_track" ELSE "g_commit")
               /\ UNCHANGED <<urls, call, pre, log>>
    /\ UNCHANGED <<counter, analytics, cache, users, now, world>>

\* a recording that adds the row twice
RecordClickTwice(rows, url_id) == Append(Append(rows, url_id), url_id)

\* lines 117-124: analytics = Analytics(url_id=url_id, ...), added
RecordClick(rows, url_id) == Append(rows, url_id)

\* _track_analytics, lines 117-124: the Analytics row is added and committed
GetTrack(p) ==
    /\ pc[p] = "g_track"
    /\ analytics' = [analytics EXCEPT ![world[p]] = RecordClick(@, loc[p].rec)]
    /\ Goto(p, "g_reload")
    /\ UNCHANGED <<counter, urls, cache, users, now, world, call, loc, pre, log>>

\* line 103, after the commit of _track_analytics expired url_record: its
\* click_count is read again
GetReload(p) ==
    /\ pc[p] = "g_reload"
    /\ loc' = [loc EXCEPT ![p].clicks = urls[world[p]][loc[p].rec].click_count]
    /\ Goto(p, "g_commit")
    /\ UNCHANGED <<counter, urls, analytics, cache, users, now, world, call, pre, log>>

\* a resolution that counts every click twice
ClickWriteTwice(read) == read + 1 + 1

\* url_record.click_count += 1, on the value the session holds
ClickWrite(read) == read + 1

\* lines 103-104: db.session.commit() writes the incremented click_count
GetCommit(p) ==
    /\ pc[p] = "g_commit"
    /\ urls' = [urls EXCEPT ![world[p]][loc[p].rec].click_count =
                                ClickWrite(loc[p].clicks)]
    /\ Goto(p, "g_refresh")
    /\ UNCHANGED <<counter, analytics, cache, users, now, world, call, loc, pre, log>>

\* line 107: url_record.original_url, read after the commit, loads the row
GetRefresh(p) ==
    /\ pc[p] = "g_refresh"
    /\ loc' = [loc EXCEPT ![p].url = urls[world[p]][loc[p].rec].original_url,
                          ![p].clicks = urls[world[p]][loc[p].rec].click_count]
    /\ Goto(p, "g_cache")
    /\ UNCHANGED <<counter, urls, analytics, cache, users, now, world, call, pre, log>>

\* lines 107-112: the cache is refreshed and the URL returned
GetCache(p) ==
    /\ pc[p] = "g_cache"
    /\ \E ok \in CacheOutcomes(world[p]) :
        cache' = [cache EXCEPT ![world[p]] =
                     cache_set_url(world[p], call[p].code, loc[p].url, ok)]
    /\ Return(p, [NoRet EXCEPT !.status = 200,
                               !.original_url = loc[p].url,
                               !.click_count = loc[p].clicks])
    /\ UNCHANGED <<counter, urls, analytics, users, now, world>>

(***************************************************************************)
(* URLShortenerService.delete_url                                          *)
(***************************************************************************)
\* lines 176-178
DeleteBegin(p, c) ==
    /\ c.op = "delete"
    /\ LET user == ActiveUser(c.api_key)
       IN IF user = NoUser
          THEN Answer(p, c, Status(401))
          ELSE /\ Take(p, c, "d_query")
               /\ loc' = [loc EXCEPT ![p].user = user]
               /\ UNCHANGED log
    /\ UNCHANGED <<counter, urls, analytics, cache, users, now, world>>

\* lines 180-182
DeleteQuery(p) ==
    /\ pc[p] = "d_query"
    /\ LET id == OwnedUrl(world[p], call[p].code, loc[p].user)
       IN IF id = 0
          THEN Return(p, Status(404))
          ELSE /\ loc' = [loc EXCEPT ![p].rec = id]
               /\ Goto(p, "d_commit")
               /\ UNCHANGED <<call, pre, log>>
    /\ UNCHANGED <<counter, urls, analytics, cache, users, now, world>>

\* a deletion that also blanks the row's URL
SoftDeleteBlanks(rows, id) ==
    [rows EXCEPT ![id].is_active = FALSE, ![id].original_url = NoUrl]

\* a deletion that removes the row
HardDelete(rows, id) ==
    SubSeq(rows, 1, id - 1) \o SubSeq(rows, id + 1, Len(rows))

\* line 184: url_record.is_active = False
SoftDelete(rows, id) == [rows EXCEPT ![id].is_active = FALSE]

\* lines 184-185: url_record.is_active = False; db.session.commit()
DeleteCommit(p) ==
    /\ pc[p] = "d_commit"
    /\ urls' = [urls EXCEPT ![world[p]] = SoftDelete(@, loc[p].rec)]
    /\ Goto(p, "d_cache")
    /\ UNCHANGED <<counter, analytics, cache, users, now, world, call, loc, pre, log>>

\* lines 188-190: self.cache.delete_url(short_code); return 200
DeleteCache(p) ==
    /\ pc[p] = "d_cache"
    /\ \E ok \in CacheOutcomes(world[p]) :
        cache' = [cache EXCEPT ![world[p]] =
                     cache_delete_url(world[p], call[p].code, ok)]
    /\ Return(p, Status(200))
    /\ UNCHANGED <<counter, urls, analytics, users, now, world>>

(***************************************************************************)
(* UserService.create_user                                                 *)
(***************************************************************************)
KeyLength == 32

\* User.generate_api_key: 32 characters of letters and digits drawn by
\* secrets.choice.  Two keys are taken never to coincide: the key of the
\* n-th user is told from the others by its characters.
generate_api_key(n) == [i \in 1..KeyLength |-> (n + i) % BASE]

\* User.query.filter_by(email=email).first()
UserByEmail(email) ==
    LET hit == {i \in 1..Len(users) : users[i].email = email}
    IN IF hit = {} THEN NoUser ELSE CHOOSE i \in hit : \A j \in hit : i <= j

\* lines 199-203: a truthy email that is registered is refused
UserBegin(p, c) ==
    /\ c.op = "create_user"
    /\ IF ~c.email.null /\ c.email.text # "" /\ UserByEmail(c.email) # NoUser
       THEN Answer(p, c, Status(409))
       ELSE /\ Take(p, c, "u_insert")
            /\ UNCHANGED <<loc, log>>
    /\ UNCHANGED <<counter, urls, analytics, cache, users, now, world>>

\* email = db.Column(db.String(120), unique=True, nullable=True): NULLs
\* apart, no two rows of users have the same email
UniqueEmail(email) == email.null \/ UserByEmail(email) = NoUser

\* lines 205-219: User(email=email) is added and committed, 201 with the
\* key; when the commit raises, rollback and 500
UserInsert(p) ==
    /\ pc[p] = "u_insert"
    /\ IF UniqueEmail(call[p].email)
       THEN /\ users' = Append(users, [api_key |-> generate_api_key(Len(users) + 1),
                                       email |-> call[p].email,
                                       is_active |-> TRUE])
            /\ Return(p, [NoRet EXCEPT !.status = 201,
                                       !.string = generate_api_key(Len(users) + 1)])
       ELSE /\ Return(p, Status(500))
            /\ UNCHANGED users
    /\ UNCHANGED <<counter, urls, analytics, cache, now, world>>

(***************************************************************************)
(* Faults of the store.  A statement the database refuses, or a lost       *)
(* connection, makes db.session.commit() raise.                            *)
(***************************************************************************)
\* _track_analytics, lines 116-126: building the Analytics object raises
\* (request_data is no dict) before the session is touched; the exception
\* is printed and the session still holds url_record as it was loaded
TrackRaises(p) ==
    /\ pc[p] = "g_track"
    /\ Goto(p, "g_commit")
    /\ UNCHANGED <<counter, urls, analytics, cache, users, now, world, call, loc,
                   pre, log>>

\* _track_analytics, lines 123-126: db.session.commit() raises in its flush
\* and the exception is printed, with no db.session.rollback().  The
\* session's transaction stays inactive, so the load of
\* url_record.click_count at line 103 raises
\* (sqlalchemy.exc.PendingRollbackError); nothing catches it in
\* get_original_url or in the route, and the request ends in a 500.
TrackCommitFails(p) ==
    /\ pc[p] = "g_track"
    /\ Return(p, Status(500))
    /\ UNCHANGED <<counter, urls, analytics, cache, users, now, world>>

\* a create_short_url that caches the mapping before it commits the row
CreateInsertFailsCached(p) ==
    /\ pc[p] = "c_insert"
    /\ cache' = [cache EXCEPT ![world[p]] =
                    cache_set_url(world[p], loc[p].short_code, call[p].url, TRUE)]
    /\ Return(p, Status(500))
    /\ UNCHANGED <<counter, urls, analytics, users, now, world>>

\* create_short_url, lines 61-63 and 76-78: db.session.commit() raises for
\* a reason other than the short code; the except branch rolls back and
\* returns 500
CreateInsertFails(p) ==
    /\ pc[p] = "c_insert"
    /\ Return(p, Status(500))
    /\ UNCHANGED <<counter, urls, analytics, cache, users, now, world>>

(***************************************************************************)
(* The environment: time passes, and Redis drops the keys whose            *)
(* time-to-live has run out.  A request is short against a tick: the       *)
(* clock moves between requests.                                           *)
(***************************************************************************)
AllIdle == \A p \in Procs : pc[p] = "idle"

Tick ==
    /\ AllIdle
    /\ now < MaxTime
    /\ now' = now + 1
    /\ cache' = [w \in Worlds |-> {e \in cache[w] : e[3] > now + 1}]
    /\ UNCHANGED <<counter, urls, analytics, users, world, pc, call, loc,
                   left, pre, log>>

(***************************************************************************)
(* Specifications.  Each draws the calls from a set of arguments.          *)
(***************************************************************************)
CreateSteps(p) == CreateExists(p) \/ CreateInsert(p) \/ CreateCache(p)
GetSteps(p) ==
    \/ GetQuery(p) \/ GetTrack(p) \/ GetReload(p)
    \/ GetCommit(p) \/ GetRefresh(p) \/ GetCache(p)
DeleteSteps(p) == DeleteQuery(p) \/ DeleteCommit(p) \/ DeleteCache(p)

\* every operation of the service
Calls ==
    {CreateCall(GoodUrl, key, code, 0) : key \in {NoKey, "k1"}, code \in {NoCode, CodeAbc}}
    \cup {GetCall(CodeAbc, t, t) : t \in BOOLEAN}
    \cup {DeleteCall(CodeAbc, "k1")}

Next ==
    \/ \E p \in Procs : \E c \in Calls :
        CreateBegin(p, c) \/ GetBegin(p, c) \/ DeleteBegin(p, c)
    \/ \E p \in Procs :
        CounterSteps(p) \/ CreateSteps(p) \/ GetSteps(p) \/ DeleteSteps(p)

Spec == Init /\ [][Next]_vars

\* one owned link 'abc', with or without an expiry, resolved and deleted
\* while time passes
RaceCalls ==
    {CreateCall(GoodUrl, "k1", CodeAbc, days) : days \in {0, 1}}
    \cup {GetCall(CodeAbc, t, t) : t \in BOOLEAN}
    \cup {DeleteCall(CodeAbc, "k1")}

NextRace ==
    \/ \E p \in Procs : \E c \in RaceCalls :
        CreateBegin(p, c) \/ GetBegin(p, c) \/ DeleteBegin(p, c)
    \/ \E p \in Procs : CreateSteps(p) \/ GetSteps(p) \/ DeleteSteps(p)
    \/ Tick

InitRace == InitWith(MaxRaceCalls, [p \in Procs |-> Cached])

SpecRace == InitRace /\ [][NextRace]_vars

(***************************************************************************)
(* Two deployments serve the same calls one after the other, in step: the  *)
(* handler Primary with a cache, the handler Replica without one.          *)
(***************************************************************************)
Primary == NProc - 1
Replica == NProc

PairCalls ==
    {CreateCall(GoodUrl, "k1", CodeAbc, 0)}
    \cup {GetCall(CodeAbc, t, t) : t \in BOOLEAN}
    \cup {DeleteCall(CodeAbc, "k1")}

LogOf(w) == SelectSeq(log, LAMBDA e : e.world = w)

\* the calls a deployment's handler has taken
Served(p) == Len(LogOf(world[p])) + (IF pc[p] = "idle" THEN 0 ELSE 1)

InStep == AllIdle /\ Served(Primary) = Served(Replica)

\* the call the Primary took last
LastCall ==
    IF pc[Primary] # "idle" THEN call[Primary]
    ELSE LogOf(Cached)[Len(LogOf(Cached))].call

Begin(p, c) == CreateBegin(p, c) \/ GetBegin(p, c) \/ DeleteBegin(p, c)

PairLead == InStep /\ \E c \in PairCalls : Begin(Primary, c)

PairFollow == Served(Replica) < Served(Primary) /\ Begin(Replica, LastCall)

PairTick == InStep /\ Tick

NextPair ==
    \/ PairLead
    \/ PairFollow
    \/ \E p \in {Primary, Replica} :
        CreateSteps(p) \/ GetSteps(p) \/ DeleteSteps(p)
    \/ PairTick

InitPair ==
    InitWith(MaxPairCalls + MaxPairCalls,
             [p \in Procs |-> IF p = Replica THEN Uncached ELSE Cached])

SpecPair == InitPair /\ [][NextPair]_vars

\* concurrent handlers create, resolve and delete one link that expires
RowCalls ==
    {CreateCall(GoodUrl, "k1", CodeAbc, 1)}
    \cup {GetCall(CodeAbc, t, t) : t \in BOOLEAN}
    \cup {DeleteCall(CodeAbc, key) : key \in {"k1", "k2"}}

\* more than a day passes between calls: a link of one day has expired,
\* the cache's entries of 3600 s are gone
Day ==
    /\ AllIdle
    /\ now + DayTicks + 1 <= MaxTime
    /\ now' = now + DayTicks + 1
    /\ cache' = [w \in Worlds |-> {e \in cache[w] : e[3] > now + DayTicks + 1}]
    /\ UNCHANGED <<counter, urls, analytics, users, world, pc, call, loc, left, pre, log>>

\* the two handlers that serve the requests
Racers == {Primary, Replica}

NextRows ==
    \/ \E p \in Racers : \E c \in RowCalls : Begin(p, c)
    \/ \E p \in Racers : CreateSteps(p) \/ GetSteps(p) \/ DeleteSteps(p)
    \/ Day

InitRows == InitWith(MaxRowCalls, [p \in Procs |-> Cached])

SpecRows == InitRows /\ [][NextRows]_vars

\* one call at a time: links with generated codes, and links whose custom
\* code is what the encoder gives for one of the next counter values
CollideCalls ==
    {CreateCall(GoodUrl, "k1", code, 0) :
        code \in {NoCode} \cup {EncodeCounter(k) : k \in 1..MaxCollideCalls}}

NextCollide ==
    \/ AllIdle /\ \E p \in Procs : \E c \in CollideCalls : CreateBegin(p, c)
    \/ \E p \in Procs : CounterSteps(p) \/ CreateSteps(p)

InitCollide == InitWith(MaxCollideCalls, [p \in Procs |-> Cached])

SpecCollide == InitCollide /\ [][NextCollide]_vars

\* two handlers create a link with or without an owner, and delete it with
\* the key of the owner, of another user, of an inactive user, with an
\* unknown key and with none
OwnerCalls ==
    {CreateCall(GoodUrl, key, CodeAbc, 0) : key \in {NoKey, "k1"}}
    \cup {DeleteCall(CodeAbc, key) : key \in {NoKey, "k1", "k2", "k3", "k9"}}

NextOwner ==
    \/ \E p \in Racers : \E c \in OwnerCalls : CreateBegin(p, c) \/ DeleteBegin(p, c)
    \/ \E p \in Racers : CreateSteps(p) \/ DeleteSteps(p)

InitOwner == InitWith(MaxOwnerCalls, [p \in Procs |-> Cached])

SpecOwner == InitOwner /\ [][NextOwner]_vars

\* two handlers create one code for two URLs, resolve it and delete it
FieldCalls ==
    {CreateCall(url, "k1", CodeAbc, 0) : url \in {GoodUrl, OtherUrl}}
    \cup {GetCall(CodeAbc, t, t) : t \in BOOLEAN}
    \cup {DeleteCall(CodeAbc, "k1")}

NextFields ==
    \/ \E p \in Racers : \E c \in FieldCalls : Begin(p, c)
    \/ \E p \in Racers : CreateSteps(p) \/ GetSteps(p) \/ DeleteSteps(p)

InitFields == InitWith(MaxFieldCalls, [p \in Procs |-> Cached])

SpecFields == InitFields /\ [][NextFields]_vars

(***************************************************************************)
(* The Redis server accepts a command and never answers.  The client of   *)
(* redis.from_url(REDIS_URL) has no socket timeout: the command does not   *)
(* raise, so the except of CacheManager is not entered, and the handler    *)
(* waits in the call.                                                      *)
(***************************************************************************)
\* line 84: cache_manager.get_url never returns
GetBeginHangs(p, c) ==
    /\ c.op = "get"
    /\ Take(p, c, "blocked")
    /\ UNCHANGED <<counter, urls, analytics, cache, users, now, world, loc, log>>

\* services.py lines 67 and 107: cache_manager.set_url never returns
CacheSetHangs(p) ==
    /\ pc[p] \in {"c_cache", "g_cache"}
    /\ Goto(p, "blocked")
    /\ UNCHANGED <<counter, urls, analytics, cache, users, now, world, call, loc, pre, log>>

HangCalls ==
    {CreateCall(GoodUrl, "k1", CodeAbc, 0)}
    \cup {GetCall(CodeAbc, t, t) : t \in BOOLEAN}

NextHang ==
    \/ \E p \in Procs : \E c \in HangCalls :
        CreateBegin(p, c) \/ GetBegin(p, c) \/ GetBeginHangs(p, c)
    \/ \E p \in Procs : CreateSteps(p) \/ GetSteps(p) \/ CacheSetHangs(p)

InitHang == InitWith(MaxHangCalls, [p \in Procs |-> Cached])

\* a handler that can take a step of its call takes one
SpecHang ==
    /\ InitHang
    /\ [][NextHang]_vars
    /\ \A p \in Procs : WF_vars(CreateSteps(p) \/ GetSteps(p))

\* the same two deployments, in step, serve only creations, tracked
\* resolutions and deletions
TrackedCalls ==
    {CreateCall(GoodUrl, "k1", CodeAbc, days) : days \in {0, 1}}
    \cup {GetCall(CodeAbc, TRUE, rd) : rd \in BOOLEAN}
    \cup {DeleteCall(CodeAbc, "k1")}

TrackedLead == InStep /\ \E c \in TrackedCalls : Begin(Primary, c)

\* the Replica takes the call once the Primary has returned
TrackedFollow == pc[Primary] = "idle" /\ PairFollow

NextTracked ==
    \/ TrackedLead
    \/ TrackedFollow
    \/ \E p \in {Primary, Replica} :
        CreateSteps(p) \/ GetSteps(p) \/ DeleteSteps(p)
    \/ PairTick

InitTracked ==
    InitWith(MaxTrackedCalls + MaxTrackedCalls,
             [p \in Procs |-> IF p = Replica THEN Uncached ELSE Cached])

SpecTracked == InitTracked /\ [][NextTracked]_vars

\* creations with good and bad URLs, API keys and custom codes
RejectCalls ==
    {CreateCall(url, key, code, 0) :
        url \in {GoodUrl, FtpUrl}, key \in {NoKey, "k1", "k3", "k9"},
        code \in {NoCode, CodeAbc, CodeAb}}

NextReject ==
    \/ \E p \in Procs : \E c \in RejectCalls : CreateBegin(p, c)
    \/ \E p \in Procs : CounterSteps(p) \/ CreateSteps(p)

InitReject == InitWith(MaxRejectCalls, [p \in Procs |-> Cached])

SpecReject == InitReject /\ [][NextReject]_vars

\* links with generated codes, created and resolved one call at a time
SeqCalls ==
    {CreateCall(url, NoKey, NoCode, 0) : url \in {GoodUrl, OtherUrl}}
    \cup {GetCall(EncodeCounter(k), TRUE, rd) : k \in 1..MaxSeqLinks, rd \in BOOLEAN}

NextSeq ==
    \/ AllIdle /\ \E p \in Procs : \E c \in SeqCalls :
        CreateBegin(p, c) \/ GetBegin(p, c)
    \/ \E p \in Procs :
        CounterSteps(p) \/ CreateInsert(p) \/ CreateCache(p) \/ GetSteps(p)

InitSeq == InitWith(MaxSeqCalls, [p \in Procs |-> Cached])

SpecSeq == InitSeq /\ [][NextSeq]_vars

(***************************************************************************)
(* One handler at a time serves calls against a store that can fail.       *)
(***************************************************************************)
FaultCalls ==
    {CreateCall(GoodUrl, "k1", CodeAbc, 0)}
    \cup {GetCall(CodeAbc, TRUE, rd) : rd \in BOOLEAN}

StoreFaults(p) == TrackRaises(p) \/ TrackCommitFails(p) \/ CreateInsertFails(p)

NextFault ==
    \/ AllIdle /\ \E p \in Procs : \E c \in FaultCalls :
        CreateBegin(p, c) \/ GetBegin(p, c)
    \/ \E p \in Procs : CreateSteps(p) \/ GetSteps(p) \/ StoreFaults(p)

InitFault == InitWith(MaxFaultCalls, [p \in Procs |-> Cached])

SpecFault == InitFault /\ [][NextFault]_vars

(***************************************************************************)
(* Users are registered one call at a time.                                *)
(***************************************************************************)
UserCalls ==
    {UserCall(email) : email \in {NoEmail, Email(""), Email("new@example.com"),
                                  AdminEmail}}

NextUser ==
    \/ AllIdle /\ \E p \in Procs : \E c \in UserCalls : UserBegin(p, c)
    \/ \E p \in Procs : UserInsert(p)

InitUser == InitWith(MaxUserCalls, [p \in Procs |-> Cached])

SpecUser == InitUser /\ [][NextUser]_vars

(***************************************************************************)
(* Base62Encoder on its own: numbers are encoded and strings decoded, and  *)
(* the last two results are kept.                                          *)
(***************************************************************************)
\* the number seed + k
CounterNum(k) == <<SeedHi + (SeedLo + k) \div LimbBase, (SeedLo + k) % LimbBase>>

\* 62^7, the first number of 8 digits, and its predecessor
Ceiling == <<BASE * BASE * BASE, 0>>
BelowCeiling == <<BASE * BASE * BASE - 1, LimbBase - 1>>

\* small numbers, the ends of the one- and two-digit ranges, the first
\* letters, the counter's first values, and the ends of the 7-digit range
EncodeInputs ==
    {<<0, n>> : n \in 0..MaxSmall}
    \cup {<<0, n>> : n \in {NDigits, NDigits + NLetters, BASE - 1, BASE,
                            BASE * BASE - 1, BASE * BASE}}
    \cup {CounterNum(k) : k \in 0..MaxOffset}
    \cup {BelowCeiling, Ceiling}

\* s with the character char put in before position k + 1
InsertAt(s, k, char) == SubSeq(s, 1, k) \o <<char>> \o SubSeq(s, k + 1, Len(s))

CharAt == 64                \* ord('@')
CharSpace == 32             \* ord(' ')
CharHash == 35              \* ord('#')

\* strings over ALPHABET, and "abc" with one foreign character anywhere
DecodeInputs ==
    {Text(ix) : ix \in {<< >>, <<0>>, CodeAbc, <<0>> \o CodeAbc, CodeFirst}}
    \cup {InsertAt(Text(CodeAbc), k, char) :
            k \in 0..Len(CodeAbc), char \in {CharAt, CharSpace, CharHash}}

\* the result before this one
Recent == IF log = << >> THEN << >> ELSE <<log[Len(log)]>>

Computed(c, r) ==
    /\ log' = Append(Recent, Entry(Cached, c, NoPre, r))
    /\ UNCHANGED <<counter, urls, analytics, cache, users, now, world, pc, call,
                   loc, left, pre>>

\* Base62Encoder.encode(num)
EncodeStep(num) ==
    Computed(EncodeCall(num), [NoRet EXCEPT !.string = EncodeText(num[1], num[2])])

\* Base62Encoder.decode(string)
DecodeStep(string) ==
    Computed(DecodeCall(string),
             [NoRet EXCEPT !.num = Decode(string).num,
                           !.error = Decode(string).error])

\* decoded = Base62Encoder.decode(encoded), on the string encode returned
DecodeBack ==
    /\ log # << >>
    /\ log[Len(log)].call.op = "encode"
    /\ DecodeStep(log[Len(log)].ret.string)

NextCodec ==
    \/ \E num \in EncodeInputs : EncodeStep(num)
    \/ \E string \in DecodeInputs : DecodeStep(string)
    \/ DecodeBack

SpecCodec == Init /\ [][NextCodec]_vars

(***************************************************************************)
(* URLValidator on its own.                                                *)
(***************************************************************************)
\* "aaa...a", n characters
Repeated(n) == [i \in 1..n |-> NDigits]

\* code with its k-th character replaced
Replaced(code, k, char) == [code EXCEPT ![k] = char]

\* codes of every length up to MaxCodeChars, and a code with '0', 'Z',
\* '-', '_' or a foreign character in each place
CodeInputs ==
    {Repeated(n) : n \in 0..MaxCodeChars}
    \cup {Replaced(CodeAbc, k, char) :
            k \in 1..Len(CodeAbc), char \in {0, BASE - 1, Hyphen, Underscore, Foreign}}

\* URLs validators.url takes, over three schemes, with and without user
\* information, the host plain, blocked or holding a blocked name; and
\* texts it refuses
UrlInputs ==
    {Url(TRUE, scheme, userinfo, host) :
        scheme \in {"http", "https", "ftp"},
        userinfo \in {<< >>, <<"user">>, <<"localhost">>},
        host \in {<<"example.com">>, <<"localhost">>, <<"LOCALHOST">>,
                  <<"127.0.0.1">>, <<"0.0.0.0">>, <<"my", "localhost", ".com">>}}
    \cup {NoUrl, Url(FALSE, "http", << >>, << >>), Url(FALSE, "", << >>, <<"example.com">>)}

\* URLValidator.is_valid_url(url)
ValidUrlStep(url) ==
    Computed(ValidUrlCall(url), [NoRet EXCEPT !.valid = is_valid_url(url)])

\* URLValidator.is_valid_custom_code(code)
ValidCodeStep(code) ==
    Computed(ValidCodeCall(code), [NoRet EXCEPT !.valid = is_valid_custom_code(code)])

NextValid ==
    \/ \E url \in UrlInputs : ValidUrlStep(url)
    \/ \E code \in CodeInputs : ValidCodeStep(code)

SpecValid == Init /\ [][NextValid]_vars

(***************************************************************************)
(* Claims about the allocator, checked under SpecCounter.                  *)
(***************************************************************************)
IsAlloc(i) == log[i].call.op = "next_id"

\* C1: no two get_next_id calls return the same value, whatever the
\* interleaving of their read, increment and commit.
C1_NoTwoCallsSameValue ==
    \A i, j \in 1..Len(log) :
        (i # j /\ IsAlloc(i) /\ IsAlloc(j)) => log[i].ret.value # log[j].ret.value

\* C2: when call A has returned before call B begins, B returns a strictly
\* greater value than A.
C2_LaterCallGreater ==
    \A i, j \in 1..Len(log) :
        (IsAlloc(i) /\ IsAlloc(j) /\ i <= log[j].pre.since)
            => log[j].ret.value > log[i].ret.value

\* C3: no step lowers the stored value of the 'url_counter' row.
C3_CounterNeverDecreases ==
    [][\A w \in Worlds : counter'[w] >= counter[w]]_vars

(***************************************************************************)
(* Claims about creation, checked under Spec.                              *)
(***************************************************************************)
Logged == 1..Len(log)

\* a create call whose arguments pass every check of lines 16-32
IsCreate(i) ==
    /\ log[i].call.op = "create"
    /\ is_valid_url(log[i].call.url)
    /\ log[i].call.api_key # NoKey => ActiveUser(log[i].call.api_key) # NoUser
    /\ log[i].call.code # NoCode => is_valid_custom_code(log[i].call.code)

IsAutoCreate(i) == IsCreate(i) /\ log[i].call.code = NoCode
IsCustomCreate(i) == IsCreate(i) /\ log[i].call.code # NoCode

NoCustomRow ==
    \A w \in Worlds : \A k \in 1..Len(urls[w]) : ~urls[w][k].is_custom

\* C4: create calls with valid URLs and no custom code, run concurrently
\* with no custom code registered, all return 201, with pairwise distinct
\* short codes.
C4_AutoCreatesAllSucceed ==
    NoCustomRow =>
        /\ \A i \in Logged : IsAutoCreate(i) => log[i].ret.status = 201
        /\ \A i, j \in Logged :
            (i # j /\ IsAutoCreate(i) /\ IsAutoCreate(j))
                => log[i].ret.short_code # log[j].ret.short_code

\* C5: of two create calls with the same valid custom code, both begun
\* while the code was unused, one returns 201 and the other 409.
C5_OneCreatedOtherConflict ==
    \A i, j \in Logged :
        (/\ i # j
         /\ IsCustomCreate(i) /\ IsCustomCreate(j)
         /\ log[i].call.code = log[j].call.code
         /\ log[i].pre.fresh /\ log[j].pre.fresh)
            => {log[i].ret.status, log[j].ret.status} = {201, 409}

\* C6: in every reachable state no two active rows of urls have the same
\* short_code.
C6_ActiveShortCodesUnique ==
    \A w \in Worlds : \A i, j \in 1..Len(urls[w]) :
        (i # j /\ urls[w][i].is_active /\ urls[w][j].is_active)
            => urls[w][i].short_code # urls[w][j].short_code

\* two creates of one custom code raced past the existence check, and the
\* table refused the second row
C6_Witness ==
    \E i \in Logged :
        /\ IsCustomCreate(i)
        /\ log[i].ret.status = 500
        /\ ActiveUrl(log[i].world, log[i].call.code) # 0

(***************************************************************************)
(* Claims about resolution and deletion, checked under SpecRace.           *)
(***************************************************************************)
IsGet(i) == log[i].call.op = "get"

\* the tracked resolutions of code that returned 200 in deployment w
TrackedHits(w, code) ==
    {i \in Logged : /\ IsGet(i) /\ log[i].world = w /\ log[i].call.code = code
                    /\ log[i].call.track /\ log[i].ret.status = 200}

\* C7: when only tracked resolutions have run and all have returned, the
\* click_count of every link equals the number of them that returned 200:
\* no click is lost.
C7_NoClickLost ==
    (AllIdle /\ \A i \in Logged : IsGet(i) => log[i].call.track) =>
        \A w \in Worlds : \A k \in 1..Len(urls[w]) :
            urls[w][k].click_count
                = Cardinality(TrackedHits(w, urls[w][k].short_code))

\* C8: a resolution begun after delete_url returned success for its code
\* returns 404.
C8_DeletedStaysNotFound ==
    \A i, j \in Logged :
        (/\ log[i].call.op = "delete" /\ log[i].ret.status = 200
         /\ IsGet(j) /\ log[j].world = log[i].world
         /\ log[j].call.code = log[i].call.code
         /\ i <= log[j].pre.since)
            => log[j].ret.status = 404

\* C9: a resolution of a link that had expired when the call began, and
\* is still active, returns 410.
C9_ExpiredIsGone ==
    \A j \in Logged :
        (/\ IsGet(j)
         /\ log[j].pre.expired
         /\ ActiveUrl(log[j].world, log[j].call.code) # 0)
            => log[j].ret.status = 410

(***************************************************************************)
(* The claim about the cache's transparency, checked under SpecPair.       *)
(***************************************************************************)
\* C10: the deployment with a cache and the one without return the same
\* status and original URL for every call of the same sequence of calls,
\* and are left with the same rows of urls.
C10_CacheTransparent ==
    (AllIdle /\ Len(LogOf(Cached)) = Len(LogOf(Uncached))) =>
        /\ \A i \in 1..Len(LogOf(Cached)) :
            /\ LogOf(Cached)[i].call = LogOf(Uncached)[i].call
            /\ LogOf(Cached)[i].ret.status = LogOf(Uncached)[i].ret.status
            /\ LogOf(Cached)[i].ret.original_url
                   = LogOf(Uncached)[i].ret.original_url
        /\ urls[Cached] = urls[Uncached]

(***************************************************************************)
(* Claims about a failing store, checked under SpecFault.                  *)
(***************************************************************************)
\* the tracked resolutions, with request data, of a link that was active
\* and not expired when the call began
TrackedOnLive ==
    {j \in Logged : /\ IsGet(j) /\ log[j].call.track /\ log[j].call.request_data
                    /\ log[j].pre.active /\ ~log[j].pre.expired}

\* C11: a tracked resolution of an active, unexpired link returns 200 with
\* the original URL and adds one to click_count, whether or not its
\* Analytics row could be recorded.
C11_AnalyticsBestEffort ==
    /\ \A j \in TrackedOnLive :
        /\ log[j].ret.status = 200
        /\ log[j].ret.original_url = GoodUrl
    /\ AllIdle =>
        \A w \in Worlds : \A k \in 1..Len(urls[w]) :
            urls[w][k].click_count
                = Cardinality({j \in Logged : /\ IsGet(j) /\ log[j].world = w
                                              /\ log[j].pre.active
                                              /\ log[j].call.code = urls[w][k].short_code})

(***************************************************************************)
(* The claim about faults of the cache, checked under SpecPair.            *)
(***************************************************************************)
\* C12: a cache command that fails, or a missing client, makes get_url
\* answer None and set_url and delete_url return with nothing done; and a
\* call ends in an error without a cache exactly when the same call ends
\* in an error with one.
C12_CacheNeverFaults ==
    /\ \A w \in Worlds : \A e \in cache[w] :
        /\ cache_get_url(w, e[1], FALSE) = NoUrl
        /\ cache_set_url(w, e[1], e[2], FALSE) = cache[w]
        /\ cache_delete_url(w, e[1], FALSE) = cache[w]
    /\ cache[Uncached] = {}
    /\ \A i \in 1..Len(LogOf(Uncached)) :
        i <= Len(LogOf(Cached)) =>
        (LogOf(Uncached)[i].ret.status = 500)
                <=> (LogOf(Cached)[i].ret.status = 500)

\* without a cache a link was created and resolved, while the other
\* deployment holds it in its cache
C12_Witness ==
    /\ cache[Cached] # {}
    /\ \E i, j \in 1..Len(LogOf(Uncached)) :
        /\ LogOf(Uncached)[i].call.op = "create"
        /\ LogOf(Uncached)[i].ret.status = 201
        /\ LogOf(Uncached)[j].call.op = "get"
        /\ LogOf(Uncached)[j].ret.status = 200

(***************************************************************************)
(* The claim about a failed insert, checked under SpecFault.               *)
(***************************************************************************)
\* the step in which a handler's commit of the new row fails
InsertFailed(p) == pc[p] = "c_insert" /\ pc'[p] # "c_insert" /\ urls' = urls

\* C13: when the commit of the new URL row fails, create_short_url returns
\* 500 in that step and writes no cache entry; and once it has returned,
\* the code it was to register, unused when the call began, has no row in
\* urls and no entry in the cache.
C13_FailedCreateWritesNothing ==
    /\ [][\A p \in Procs : InsertFailed(p) =>
              /\ pc'[p] = "idle"
              /\ Len(log') = Len(log) + 1
              /\ log'[Len(log')].ret.status = 500
              /\ cache' = cache]_vars
    /\ [](\A i \in Logged :
            (/\ AllIdle /\ i = Len(log)
             /\ log[i].call.op = "create" /\ log[i].ret.status = 500
             /\ log[i].pre.fresh)
                => /\ UniqueShortCode(log[i].world, log[i].call.code)
                   /\ \A e \in cache[log[i].world] : e[1] # log[i].call.code)

\* a create of an unused code has just returned 500
C13_Witness ==
    /\ AllIdle
    /\ log # << >>
    /\ log[Len(log)].call.op = "create"
    /\ log[Len(log)].ret.status = 500
    /\ log[Len(log)].pre.fresh

(***************************************************************************)
(* The claim about rejected creations, checked under SpecReject.           *)
(***************************************************************************)
\* the step in which a create call returns 400, 401 or 409
RejectedNow ==
    /\ Len(log') = Len(log) + 1
    /\ log'[Len(log')].call.op = "create"
    /\ log'[Len(log')].ret.status \in {400, 401, 409}

\* the step in which a create call passes on to the check of its custom code
ChecksCustom == \E p \in Procs : pc[p] = "idle" /\ pc'[p] = "c_exists"

\* C14: no step of a create_short_url call that is rejected with 400, 401
\* or 409 changes the counter, a row of urls or the cache.
C14_RejectedCreateWritesNothing ==
    [][(RejectedNow \/ ChecksCustom) =>
          /\ counter' = counter
          /\ urls' = urls
          /\ cache' = cache]_vars

\* a create was rejected with 409 after the code had been registered and
\* cached, and one with 400 or 401
C14_Witness ==
    /\ \E i \in Logged : /\ log[i].call.op = "create" /\ log[i].ret.status = 409
                          /\ ~UniqueShortCode(log[i].world, log[i].call.code)
    /\ \E w \in Worlds : cache[w] # {}

(***************************************************************************)
(* The claim about the sequential workflow, checked under SpecSeq.         *)
(***************************************************************************)
\* the resolutions of the code that create i returned, among the calls
\* i+1 .. j
GetsSince(i, j) ==
    {m \in (i + 1)..j : IsGet(m) /\ log[m].call.code = log[i].ret.short_code}

\* C15: run one call at a time, a create with a valid URL and no custom
\* code returns 201 and a code of 7 characters, and the k-th tracked
\* resolution of that code afterwards returns 200, the URL given at
\* creation and click_count = k.
C15_SequentialWorkflow ==
    /\ \A i \in Logged : IsAutoCreate(i) =>
        /\ log[i].ret.status = 201
        /\ Len(log[i].ret.short_code) = 7
        /\ log[i].ret.original_url = log[i].call.url
    /\ \A i, j \in Logged :
        (/\ i < j /\ IsAutoCreate(i) /\ IsGet(j) /\ log[j].call.track
         /\ log[j].call.code = log[i].ret.short_code)
            => /\ log[j].ret.status = 200
               /\ log[j].ret.original_url = log[i].call.url
               /\ log[j].ret.click_count = Cardinality(GetsSince(i, j))

\* a generated code was resolved twice after its creation, the second
\* time with click_count 2
C15_Witness ==
    \E i, j \in Logged :
        /\ i < j /\ IsAutoCreate(i) /\ IsGet(j)
        /\ log[j].call.code = log[i].ret.short_code
        /\ Cardinality(GetsSince(i, j)) > 1
        /\ log[j].ret.click_count > 1

(***************************************************************************)
(* Claims about Base62Encoder, checked under SpecCodec.                    *)
(***************************************************************************)
IsEncode(i) == log[i].call.op = "encode"
IsDecode(i) == log[i].call.op = "decode"

\* decode j was given the string encode i returned
DecodesBack(i, j) ==
    /\ j = i + 1 /\ IsEncode(i) /\ IsDecode(j)
    /\ log[j].call.string = log[i].ret.string

\* C16: decode(encode(n)) = n for every n encoded, 0 and the numbers whose
\* encoding is padded with '0' included.
C16_RoundTrip ==
    \A i, j \in Logged :
        DecodesBack(i, j) => ~log[j].ret.error /\ log[j].ret.num = log[i].call.num

\* the encoding of 1, padded with '0', was decoded
C16_Witness ==
    \E i, j \in Logged :
        /\ DecodesBack(i, j)
        /\ log[i].call.num = <<0, 1>>
        /\ Len(log[i].ret.string) = PadWidth
        /\ log[i].ret.string[1] = CodeZero

\* an encode of a number from the counter's seed up
FromSeed(i) == IsEncode(i) /\ ~NumLess(log[i].call.num, CounterNum(0))

\* C17 as stated: encode(n) has exactly 7 characters for every n from the
\* counter's seed 100000000000 up.
C17_SevenFromSeed ==
    \A i \in Logged : FromSeed(i) => Len(log[i].ret.string) = 7

\* C17, amended: encode(n) has exactly 7 characters for every n from the
\* seed up to 62^7 - 1, and more than 7 from 62^7 on.
C17_SevenBelowCeiling ==
    \A i \in Logged : FromSeed(i) =>
        IF NumLess(log[i].call.num, Ceiling)
        THEN Len(log[i].ret.string) = 7
        ELSE Len(log[i].ret.string) > 7

\* the last number of 7 digits and the first of 8 were encoded
C17_Witness ==
    \E i, j \in Logged :
        /\ IsEncode(i) /\ log[i].call.num = BelowCeiling
        /\ IsEncode(j) /\ log[j].call.num = Ceiling

\* the characters of a string are all of ALPHABET
OverAlphabet(string) ==
    \A k \in 1..Len(string) : \E d \in 0..(BASE - 1) : ALPHABET[d] = string[k]

\* the last character of a string
LastChar(string) == string[Len(string)]

C19_OrderPreserved ==
    \A i, j \in Logged :
        (/\ FromSeed(i) /\ FromSeed(j)
         /\ Len(log[i].ret.string) = 7 /\ Len(log[j].ret.string) = 7
         /\ NumLess(log[i].call.num, log[j].call.num))
            => TextLess(log[i].ret.string, log[j].ret.string)

\* the string without its last character
Front(string) == SubSeq(string, 1, Len(string) - 1)

\* C20: decode raises, and returns no number, for every string with a
\* character outside ALPHABET, wherever it stands; for a string over
\* ALPHABET it returns the left-to-right fold num * 62 + index(char).
C20_DecodeRejectsForeign ==
    \A j \in Logged : IsDecode(j) =>
        LET string == log[j].call.string
        IN IF ~OverAlphabet(string)
           THEN log[j].ret.error /\ log[j].ret.num = NoRet.num
           ELSE /\ ~log[j].ret.error
                /\ log[j].ret.num =
                     IF string = << >> THEN <<0, 0>>
                     ELSE MulAdd(Decode(Front(string)).num,
                                 AlphabetIndex(LastChar(string)))

\* decode raised for a foreign character at the head of a string and for
\* one at its end
C20_Witness ==
    \E i, j \in Logged :
        /\ IsDecode(i) /\ log[i].ret.error
        /\ ~OverAlphabet(<<log[i].call.string[1]>>)
        /\ IsDecode(j) /\ log[j].ret.error
        /\ ~OverAlphabet(<<LastChar(log[j].call.string)>>)
        /\ OverAlphabet(Front(log[j].call.string))

(***************************************************************************)
(* Claims about URLValidator, checked under SpecValid.                     *)
(***************************************************************************)
IsCodeCheck(i) == log[i].call.op = "is_valid_custom_code"
IsUrlCheck(i) == log[i].call.op = "is_valid_url"

\* C21: is_valid_custom_code accepts a string exactly when it has 3 to 16
\* characters, each a letter, a digit, '-' or '_'; the empty string is
\* rejected.
C21_CustomCodeAccepted ==
    \A i \in Logged : IsCodeCheck(i) =>
        LET code == log[i].call.code
        IN log[i].ret.valid <=>
            /\ Len(code) >= 3
            /\ Len(code) <= 16
            /\ \A k \in 1..Len(code) :
                code[k] < BASE \/ code[k] = Hyphen \/ code[k] = Underscore

\* a code of 16 characters was accepted and one of 17 refused
C21_Witness ==
    \E i, j \in Logged :
        /\ IsCodeCheck(i) /\ Len(log[i].call.code) = MaxCodeLen /\ log[i].ret.valid
        /\ IsCodeCheck(j) /\ Len(log[j].call.code) = MaxCodeLen + 1
        /\ ~log[j].ret.valid

\* C22: is_valid_url rejects a URL whose scheme is not http or https or
\* whose host is empty, rejects a well-formed http(s) URL exactly when
\* its lowercased host contains 'localhost', '127.0.0.1' or '0.0.0.0',
\* and accepts every other well-formed http(s) URL.
C22_UrlAccepted ==
    \A i \in Logged : IsUrlCheck(i) =>
        LET url == log[i].call.url
            host == [k \in 1..Len(url.host) |-> Lower(url.host[k])]
        IN log[i].ret.valid <=>
            /\ url.wellformed
            /\ url.scheme \in {"http", "https"}
            /\ url.host # << >>
            /\ ~\E k \in 1..Len(host) :
                    host[k] \in {"localhost", "127.0.0.1", "0.0.0.0"}

(***************************************************************************)
(* The claim about create_user, checked under SpecUser.                    *)
(***************************************************************************)
IsUserCreate(i) == log[i].call.op = "create_user"

\* the email of call j belonged to a user when the call began
EmailTaken(j) ==
    /\ ~log[j].call.email.null
    /\ \/ \E k \in 1..Len(InitUsers) : InitUsers[k].email = log[j].call.email
       \/ \E i \in 1..(j - 1) : /\ IsUserCreate(i)
                                 /\ log[i].call.email = log[j].call.email
                                 /\ log[i].ret.status = 201

\* C23: create_user with an email that belongs to a user returns 409 and
\* adds no row; with a new or absent email it returns 201 and adds one
\* user, whose API key has 32 characters.
C23_CreateUser ==
    /\ \A j \in Logged : IsUserCreate(j) =>
        IF EmailTaken(j) THEN log[j].ret.status = 409
        ELSE log[j].ret.status = 201 /\ Len(log[j].ret.string) = 32
    /\ AllIdle =>
        Len(users) = Len(InitUsers)
            + Cardinality({j \in Logged : IsUserCreate(j) /\ log[j].ret.status = 201})

(***************************************************************************)
(* The claim about the first allocations, checked under SpecLazy.          *)
(***************************************************************************)
\* C24: when get_next_id calls race to create the missing counter row,
\* none ends in an error, and they return pairwise distinct values above
\* the seed 100000000000; the table holds the one row.
C24_LazyCreateRace ==
    /\ \A i \in Logged : IsAlloc(i) =>
        log[i].ret.status # 500 /\ log[i].ret.value > 0
    /\ \A i, j \in Logged :
        (i < j /\ IsAlloc(i) /\ IsAlloc(j) /\ log[i].pre.since = 0
         /\ log[j].pre.since = 0)
            => log[i].ret.value # log[j].ret.value

(***************************************************************************)
(* Claims about the rows the service keeps, checked under SpecRace.        *)
(***************************************************************************)
\* the call logged at i ran alone: every call before it had returned when
\* it began, and none has begun since
RanAlone(i) == i = Len(log) /\ AllIdle /\ log[i].pre.since = i - 1

\* C25: a create_short_url with a valid URL and a custom code whose only
\* rows are soft-deleted returns 201, and the code then resolves to the
\* new URL.
C25_InactiveRowFreesCode ==
    \A i \in Logged :
        (/\ IsCustomCreate(i) /\ RanAlone(i)
         /\ is_valid_url(log[i].call.url)
         /\ is_valid_custom_code(log[i].call.code)
         /\ ActiveUser(log[i].call.api_key) # NoUser
         /\ ~log[i].pre.fresh /\ ~log[i].pre.active)
        => /\ log[i].ret.status = 201
           /\ ActiveUrl(log[i].world, log[i].call.code) # 0
           /\ urls[log[i].world][ActiveUrl(log[i].world, log[i].call.code)].original_url
                  = log[i].call.url

(***************************************************************************)
(* The claim about tracked resolutions and the cache, checked under        *)
(* SpecTracked.                                                            *)
(***************************************************************************)
\* C26: whatever the cache holds for the code (the value, nothing, a value
\* of a deleted or expired link, or a failing backend), a tracked
\* get_original_url returns the same status and URL as without a cache,
\* and leaves the same rows of urls and analytics.
C26_TrackedIgnoresCache ==
    (AllIdle /\ Len(LogOf(Cached)) = Len(LogOf(Uncached))) =>
        /\ \A i \in 1..Len(LogOf(Cached)) :
            /\ LogOf(Cached)[i].call = LogOf(Uncached)[i].call
            /\ LogOf(Cached)[i].call.op = "get" =>
                /\ LogOf(Cached)[i].call.track
                /\ LogOf(Cached)[i].ret = LogOf(Uncached)[i].ret
        /\ urls[Cached] = urls[Uncached]
        /\ analytics[Cached] = analytics[Uncached]

\* both deployments have served a tracked resolution of a link that the
\* cache of the first one holds
C26_Witness ==
    /\ AllIdle /\ Len(LogOf(Cached)) = Len(LogOf(Uncached))
    /\ \E i \in 1..Len(LogOf(Cached)) :
        /\ LogOf(Cached)[i].call.op = "get"
        /\ LogOf(Cached)[i].call.track
        /\ LogOf(Cached)[i].ret.status = 200
        /\ LogOf(Cached)[i].pre.active
    /\ \E e \in cache[Cached] : e[1] = CodeAbc

(***************************************************************************)
(* Claims about clicks, Analytics rows and soft deletion: C27 under        *)
(* SpecRace, C28 and C30 under SpecRows.                                   *)
(***************************************************************************)
\* the handler p, serving a call, takes the step
Steps(p) == pc[p] # "idle" /\ pc'[p] # pc[p]

ClickCounts(w) == [k \in 1..Len(urls[w]) |-> urls[w][k].click_count]

\* C27: no step of a get_original_url call with track_analytics = false
\* changes a click_count, whether the cache answered or not.
C27_UntrackedKeepsClicks ==
    [][\A p \in Procs :
          (Steps(p) /\ call[p].op = "get" /\ ~call[p].track)
              => ClickCounts(world[p])' = ClickCounts(world[p])]_vars

\* the Analytics rows of the link with id k
RowsOf(w, k) == {n \in 1..Len(analytics[w]) : analytics[w][n] = k}

\* the returned resolutions of a code that were tracked, with request
\* data, and answered 200
Recorded(w, code) ==
    {j \in Logged : /\ IsGet(j) /\ log[j].world = w /\ log[j].call.code = code
                    /\ log[j].call.track /\ log[j].call.request_data
                    /\ log[j].ret.status = 200}

\* C28: once every call has returned, a link has one Analytics row for
\* each tracked get_original_url, with request data, that returned 200,
\* and none for any other resolution; and no step changes or removes an
\* Analytics row that exists.
C28_OneRowPerTrackedHit ==
    /\ [](AllIdle => \A w \in Worlds : \A k \in 1..Len(urls[w]) :
            Cardinality(RowsOf(w, k))
                = Cardinality(Recorded(w, urls[w][k].short_code)))
    /\ [](\A w \in Worlds : \A n \in 1..Len(analytics[w]) :
            analytics[w][n] \in 1..Len(urls[w]))
    /\ [][\A w \in Worlds :
            /\ Len(analytics[w]') >= Len(analytics[w])
            /\ SubSeq(analytics[w]', 1, Len(analytics[w])) = analytics[w]]_vars

\* a link has an Analytics row, and a tracked resolution of it has
\* returned 404 or 410
C28_Witness ==
    /\ AllIdle
    /\ analytics[Cached] # << >>
    /\ \E j \in Logged :
        /\ IsGet(j) /\ log[j].call.track /\ log[j].call.request_data
        /\ log[j].ret.status \in {404, 410}

(***************************************************************************)
(* The claim about a cache that never answers, checked under SpecHang.     *)
(***************************************************************************)
\* C29: every create_short_url and get_original_url call that a handler
\* has taken eventually returns, also when a cache command of the call
\* gets no answer.
C29_HungCacheReturns ==
    \A p \in Procs : (pc[p] # "idle") ~> (pc[p] = "idle")

\* the handler p commits the deletion of a delete_url call, which then
\* returns 200
CommitsDelete(p) ==
    call[p].op = "delete" /\ pc[p] = "d_commit" /\ pc'[p] = "d_cache"

\* C30: no step removes a row of urls or sets is_active back to true;
\* is_active changes only from true to false and only in the commit of a
\* delete_url that returns 200; and a delete_url of a code whose row is
\* already soft-deleted changes nothing in the store.
C30_SoftDeleteOneWay ==
    [][\A w \in Worlds :
        /\ Len(urls[w]') >= Len(urls[w])
        /\ \A k \in 1..Len(urls[w]) :
            /\ urls[w]'[k].short_code = urls[w][k].short_code
            /\ urls[w]'[k].is_active => urls[w][k].is_active
            /\ urls[w]'[k].is_active # urls[w][k].is_active =>
                \E p \in Procs : world[p] = w /\ CommitsDelete(p) /\ loc[p].rec = k
        /\ \A p \in Procs :
            (/\ Steps(p) /\ world[p] = w /\ call[p].op = "delete"
             /\ ~pre[p].fresh /\ ~pre[p].active)
            => /\ urls[w]' = urls[w]
               /\ analytics[w]' = analytics[w]
               /\ counter[w]' = counter[w]]_vars

\* a delete_url returned 200, and a later delete_url of the same code by
\* the same user has returned
C30_Witness ==
    \E i, j \in Logged :
        /\ i < j
        /\ log[i].call.op = "delete" /\ log[i].ret.status = 200
        /\ log[j].call = log[i].call
        /\ log[j].pre.since >= i
        /\ ~log[j].pre.active /\ ~log[j].pre.fresh

(***************************************************************************)
(* Claims about what a row and the cache keep, checked under SpecFields.   *)
(***************************************************************************)
\* C31: no step of a get_original_url, delete_url or create_short_url
\* call changes the id, short_code or original_url of a row of urls that
\* exists, and the row keeps its place in the table.
C31_RowFieldsImmutable ==
    [][\A w \in Worlds :
        /\ Len(urls[w]') >= Len(urls[w])
        /\ \A k \in 1..Len(urls[w]) :
            /\ urls[w]'[k].id = urls[w][k].id
            /\ urls[w]'[k].short_code = urls[w][k].short_code
            /\ urls[w]'[k].original_url = urls[w][k].original_url]_vars

\* a link was created and then resolved or deleted, and a create of its
\* code for the other URL has returned after that
C31_Witness ==
    /\ Len(urls[Cached]) > 0
    /\ ~urls[Cached][1].is_active \/ urls[Cached][1].click_count > 0
    /\ \E j \in Logged :
        /\ IsCreate(j)
        /\ log[j].call.url # urls[Cached][1].original_url
        /\ ~log[j].pre.fresh

(***************************************************************************)
(* The claim about generated and custom codes, checked under SpecCollide.  *)
(***************************************************************************)
\* C32: a create_short_url with a valid URL and no custom code returns
\* 201, also after creates that registered 7-character custom codes, one
\* of them the encoding of the next counter value.
C32_AutoNeverCollides ==
    \A i \in Logged :
        (IsAutoCreate(i) /\ is_valid_url(log[i].call.url)
         /\ ActiveUser(log[i].call.api_key) # NoUser)
            => log[i].ret.status = 201

\* C33: every entry of the cache for a code holds the original_url of a
\* row of urls with that short_code (rows are committed before the entry
\* is written, and are never removed or changed in these fields).
C33_CacheAgreesWithStore ==
    \A w \in Worlds : \A e \in cache[w] :
        \E k \in 1..Len(urls[w]) :
            /\ urls[w][k].short_code = e[1]
            /\ urls[w][k].original_url = e[2]

\* the cache holds the code, and a create of the code for another URL
\* has ended in an error
C33_Witness ==
    /\ \E e \in cache[Cached] : e[1] = CodeAbc
    /\ \E j \in Logged :
        /\ IsCreate(j)
        /\ log[j].ret.status \in {409, 500}
        /\ \E e \in cache[Cached] : e[2] # log[j].call.url

(***************************************************************************)
(* The claim about who may delete a link, checked under SpecOwner.         *)
(***************************************************************************)
\* the rows with the code that belong to the active user of the key
RowsOwned(w, code, key) ==
    {k \in 1..Len(urls[w]) : /\ urls[w][k].short_code = code
                             /\ ActiveUser(key) # NoUser
                             /\ urls[w][k].user_id = ActiveUser(key)}

IsDelete(i) == log[i].call.op = "delete"

\* C34: a row is deactivated only by the delete_url of the active user
\* who owns it; a delete_url with a key of no active user returns 401,
\* one of a user without a row of the code returns 404, and neither
\* changes the store or the cache; a row without an owner stays active.
C34_OnlyOwnerDeletes ==
    /\ [](\A i \in Logged : IsDelete(i) =>
            /\ ActiveUser(log[i].call.api_key) = NoUser => log[i].ret.status = 401
            /\ (/\ ActiveUser(log[i].call.api_key) # NoUser
                /\ RowsOwned(log[i].world, log[i].call.code, log[i].call.api_key) = {})
                    => log[i].ret.status = 404)
    /\ [](\A w \in Worlds : \A k \in 1..Len(urls[w]) :
            urls[w][k].user_id = NoUser => urls[w][k].is_active)
    /\ [][\A w \in Worlds :
            /\ \A k \in 1..Len(urls[w]) :
                urls[w]'[k].is_active # urls[w][k].is_active =>
                    \E p \in Procs :
                        /\ world[p] = w /\ CommitsDelete(p)
                        /\ k \in RowsOwned(w, call[p].code, call[p].api_key)
            /\ \A p \in Procs :
                (/\ world[p] = w /\ Steps(p) /\ call[p].op = "delete"
                 /\ RowsOwned(w, call[p].code, call[p].api_key) = {})
                => /\ urls[w]' = urls[w]
                   /\ cache[w]' = cache[w]
                   /\ analytics[w]' = analytics[w]]_vars

\* a link without an owner is active and cached after a delete_url with a
\* user's key returned 404 and one with a key of no active user 401
C34_Witness ==
    /\ \E k \in 1..Len(urls[Cached]) :
        urls[Cached][k].user_id = NoUser /\ urls[Cached][k].is_active
    /\ \E e \in cache[Cached] : e[1] = CodeAbc
    /\ \E i, j \in Logged :
        /\ IsDelete(i) /\ log[i].ret.status = 404
        /\ IsDelete(j) /\ log[j].ret.status = 401

(***************************************************************************)
(* The claim about resolutions that find nothing, checked under SpecRows.  *)
(***************************************************************************)
\* the handler p returns from a get_original_url with 404 or 410
ReturnsGone(p) ==
    /\ Steps(p) /\ call[p].op = "get" /\ pc'[p] = "idle"
    /\ Len(log') = Len(log) + 1
    /\ log'[Len(log')].ret.status \in {404, 410}

\* C35: the steps of a get_original_url call that returns 404 or 410, the
\* one that takes the call and looks into the cache and the one that
\* finds no active row or an expired one, change no click_count, no
\* Analytics row and no entry of the cache.
C35_GoneChangesNothing ==
    [][\A p \in Procs :
        (\/ ReturnsGone(p)
         \/ pc[p] = "idle" /\ pc'[p] = "g_query")
        => /\ urls' = urls
           /\ analytics' = analytics
           /\ cache' = cache]_vars

\* a tracked resolution returned 410 for a link that has clicks and an
\* Analytics row
C35_Witness ==
    /\ \E j \in Logged : IsGet(j) /\ log[j].call.track /\ log[j].ret.status = 410
    /\ analytics[Cached] # << >>
    /\ \E k \in 1..Len(urls[Cached]) : urls[Cached][k].click_count > 0

====
